---- MODULE Spec2Model ----
(***************************************************************************)
(* The XMGR download pipeline of themis: truth extraction, the two-phase   *)
(* checkpointed corpus extraction and the answer-id verifier               *)
(* (src/themis/xmgr.py), with the earlier truth extractor of               *)
(* src/themis/themis/xmgr.py.                                              *)
(*                                                                         *)
(* Identifiers are strings, modelled as sequences of characters; a         *)
(* character is a natural number and 0 is the comma.  A file is a record   *)
(* [exists, rows]; the process state is lost when the process is killed.   *)
(***************************************************************************)
EXTENDS Integers, Sequences, FiniteSets, TLC

\* ---------------------------------------------------------------- bounds
NumPaus == 2
MaxRuns == 2
NumQuestions == 3
RecursionLimit == 6
MaxTotal == 3
MaxPage == 2
MaxItems == 3

Comma == 0
DocIds == { <<1>>, <<2>> }
PauIds == { <<c>> : c \in 1..NumPaus }
Frequencies == { 1, 2 }
NoMaxDocs == 0
MaxDocsInputs == { NoMaxDocs } \cup 1..(Cardinality(DocIds) - 1)

\* ------------------------------------------------------------ strings
Min(a, b) == IF a < b THEN a ELSE b

\* Python's string order: lexicographic on the characters.
StrLess(s, t) ==
    \E i \in 1..(Min(Len(s), Len(t)) + 1) :
        /\ \A j \in 1..(i - 1) : s[j] = t[j]
        /\ \/ i = Len(s) + 1 /\ i <= Len(t)
           \/ i <= Len(s) /\ i <= Len(t) /\ s[i] < t[i]

RECURSIVE sorted(_)
sorted(S) ==
    IF S = {} THEN <<>>
    ELSE LET least == CHOOSE x \in S : \A y \in S \ {x} : StrLess(x, y)
         IN  <<least>> \o sorted(S \ {least})

RECURSIVE join(_)
join(items) ==
    IF Len(items) = 0 THEN <<>>
    ELSE IF Len(items) = 1 THEN items[1]
    ELSE items[1] \o <<Comma>> \o join(Tail(items))

RECURSIVE split(_)
split(s) ==
    IF \A i \in 1..Len(s) : s[i] # Comma THEN << s >>
    ELSE LET k == CHOOSE i \in 1..Len(s) :
                      s[i] = Comma /\ \A j \in 1..(i - 1) : s[j] # Comma
         IN  << SubSeq(s, 1, k - 1) >> \o split(SubSeq(s, k + 1, Len(s)))

Range(seq) == { seq[i] : i \in 1..Len(seq) }

serialize_pau_ids(ids) == join(sorted(ids))

deserialize_pau_ids(s) == Range(split(s))

\* -------------------------------------------------------------- files
Absent == [exists |-> FALSE, rows |-> <<>>]
File(rows) == [exists |-> TRUE, rows |-> rows]
Keys(file) == { file.rows[i].key : i \in 1..Len(file.rows) }
NoDuplicateKeys(file) ==
    \A i, j \in 1..Len(file.rows) : file.rows[i].key = file.rows[j].key => i = j
AnswerIds(file) == { file.rows[i].AnswerId : i \in 1..Len(file.rows) }

\* ------------------------------------------- Checkpointed Tabular Writer
\* The writer keeps the rows written since the last flush in a buffer, which is
\* lost with the process; close flushes it.
NoCheckpoint == [open |-> FALSE, recovered |-> {}, buffer |-> <<>>, interval |-> 1]

\* The rows of the file once the writer has opened it (the file is created).
OpenedFile(file) == File(file.rows)

DataFrameCheckpoint(file, interval) ==
    [open |-> TRUE, recovered |-> Keys(file), buffer |-> <<>>, interval |-> interval]

\* checkpoint_frequency: "how often to write intermediate results to a checkpoint
\* file": the buffered rows reach the file once there are interval of them.
FlushDue(buffer, interval) == Len(buffer) % interval = 0

CheckpointWriteTruncating(file, w, row) ==
    LET buffer == Append(w.buffer, row)
    IN  IF FlushDue(buffer, w.interval)
        THEN [file |-> File(buffer), w |-> [w EXCEPT !.buffer = <<>>]]
        ELSE [file |-> file, w |-> [w EXCEPT !.buffer = buffer]]

CheckpointWrite(file, w, row) ==
    LET buffer == Append(w.buffer, row)
    IN  IF FlushDue(buffer, w.interval)
        THEN [file |-> File(file.rows \o buffer), w |-> [w EXCEPT !.buffer = <<>>]]
        ELSE [file |-> file, w |-> [w EXCEPT !.buffer = buffer]]

CheckpointClose(file, w) == File(file.rows \o w.buffer)

\* ------------------------------------------------------ Truth Extractor
Rejected == "REJECTED"
Mapped == "MAPPED"
NoAnswer == [kind |-> "None", id |-> <<>>]

\* A Question record: hasPau / hasMapped say whether the record has the
\* "predefinedAnswerUnit" / "mappedQuestion" key.
Question(id, state, hasPau, pau, hasMapped, mappedId, offTopic) ==
    [id |-> id, state |-> state, hasPau |-> hasPau, predefinedAnswerUnit |-> pau,
     hasMapped |-> hasMapped, mappedQuestion |-> mappedId, offTopic |-> offTopic]

\* [question for question in xmgr.get_questions() if not question["state"] == "REJECTED"]
NotRejected(all_questions) == SelectSeq(all_questions, LAMBDA q : q.state # Rejected)

QuestionIds(mapped_questions) == { mapped_questions[i].id : i \in 1..Len(mapped_questions) }

\* dict([(question["id"], question) for question in mapped_questions]): the last
\* record of an id wins.
QuestionIndex(mapped_questions) ==
    [id \in QuestionIds(mapped_questions) |->
        LET last == CHOOSE i \in 1..Len(mapped_questions) :
                        /\ mapped_questions[i].id = id
                        /\ \A j \in (i + 1)..Len(mapped_questions) : mapped_questions[j].id # id
        IN  mapped_questions[last]]

get_pau_mapping_one_hop(questions, question, depth) ==
    IF question.hasPau THEN [kind |-> "id", id |-> question.predefinedAnswerUnit]
    ELSE IF question.hasMapped
    THEN IF question.mappedQuestion \notin DOMAIN questions
         THEN [kind |-> "KeyError", id |-> <<>>]
         ELSE IF questions[question.mappedQuestion].hasPau
         THEN [kind |-> "id", id |-> questions[question.mappedQuestion].predefinedAnswerUnit]
         ELSE NoAnswer
    ELSE NoAnswer

\* get_pau_mapping with a guard: it gives up once it has followed more mappings
\* than there are questions.
RECURSIVE get_pau_mapping_guarded(_, _, _)
get_pau_mapping_guarded(questions, question, depth) ==
    IF depth > Cardinality(DOMAIN questions) THEN NoAnswer
    ELSE IF question.hasPau THEN [kind |-> "id", id |-> question.predefinedAnswerUnit]
    ELSE IF question.hasMapped
    THEN IF question.mappedQuestion \notin DOMAIN questions
         THEN [kind |-> "KeyError", id |-> <<>>]
         ELSE get_pau_mapping_guarded(questions, questions[question.mappedQuestion], depth + 1)
    ELSE NoAnswer

\* Each call is a frame of the interpreter's stack; past the recursion limit the
\* interpreter raises RuntimeError (maximum recursion depth exceeded).
RECURSIVE get_pau_mapping(_, _, _)
get_pau_mapping(questions, question, depth) ==
    IF depth > RecursionLimit THEN [kind |-> "RuntimeError", id |-> <<>>]
    ELSE IF question.hasPau THEN [kind |-> "id", id |-> question.predefinedAnswerUnit]
    ELSE IF question.hasMapped
    THEN IF question.mappedQuestion \notin DOMAIN questions
         THEN [kind |-> "KeyError", id |-> <<>>]
         ELSE get_pau_mapping(questions, questions[question.mappedQuestion], depth + 1)
    ELSE NoAnswer

\* The ids of a question index in the order the rows are produced.
RECURSIVE IdOrder(_)
IdOrder(ids) ==
    IF ids = {} THEN <<>>
    ELSE LET least == CHOOSE x \in ids : \A y \in ids : x <= y
         IN  <<least>> \o IdOrder(ids \ {least})

\* src/themis/xmgr.py: the result is the exception raised, or the truth table
\* (rows of QuestionId, AnswerId) with the unmapped count.
get_truth_from_mapped_questions(mapped_questions) ==
    LET questions == QuestionIndex(mapped_questions)
        answer == [id \in DOMAIN questions |-> get_pau_mapping(questions, questions[id], 1)]
        failed == { id \in DOMAIN questions : answer[id].kind \notin {"id", "None"} }
        order == IdOrder(DOMAIN questions)
        resolved == SelectSeq(order, LAMBDA id : answer[id].kind = "id")
    IN  IF failed # {}
        THEN [raised |-> answer[CHOOSE id \in failed : \A o \in failed : id <= o].kind,
              truth |-> <<>>, unmapped |-> 0]
        ELSE [raised |-> "",
              truth |-> [i \in 1..Len(resolved) |->
                            [QuestionId |-> resolved[i], AnswerId |-> answer[resolved[i]].id]],
              unmapped |-> Cardinality({ id \in DOMAIN questions : answer[id].kind = "None" })]

\* src/themis/themis/xmgr.py: the earlier extractor.  A mapped question gets the
\* record of the question it is mapped to (kept here by that record's id), and
\* off-topic questions are counted apart from unmapped ones.
themis_get_truth_from_mapped_questions(mapped_questions) ==
    LET questions == QuestionIndex(mapped_questions)
        ids == DOMAIN questions
        direct == { id \in ids : questions[id].hasPau }
        mapped == { id \in ids \ direct : questions[id].hasMapped }
        failed == { id \in mapped : questions[id].mappedQuestion \notin ids }
        rest == ids \ (direct \cup mapped)
    IN  IF failed # {}
        THEN [raised |-> "KeyError", answers |-> <<>>, off_topic |-> 0, unmapped |-> 0]
        ELSE [raised |-> "",
              answers |-> [id \in direct \cup mapped |->
                  IF id \in direct
                  THEN [kind |-> "id", id |-> questions[id].predefinedAnswerUnit, question |-> 0]
                  ELSE [kind |-> "question", id |-> <<>>,
                        question |-> questions[id].mappedQuestion]],
              off_topic |-> Cardinality({ id \in rest : questions[id].offTopic }),
              unmapped |-> Cardinality({ id \in rest : ~questions[id].offTopic })]

\* ------------------------------------------------------------- state
VARIABLES
    refs,                  \* server: document id -> the DOCNO list of its trec items
    hits,                  \* server: the answer-unit ids get_pau has a hit for
    id_same,               \* server: a PAU's "id" field equals the id used to look it up
    questions,             \* server: the Question records of the project
    truth_json,            \* files of the output directory
    truth_csv,
    truth_non_corpus_csv,
    pau_ids_csv,
    corpus_csv,
    pc,                    \* position of the running process, "idle" when none runs
    runs,                  \* number of processes started so far
    outcome,               \* how the last process ended
    args,                  \* checkpoint_frequency and max_docs of the running process
    mapped_questions,      \* locals of the running process
    document_ids,
    pau_ids,
    counts,                \* n and m of phase 2
    checkpoint,            \* the open Checkpointed Tabular Writer
    truth,                 \* the Verifier's truth table and the difference d
    history,               \* what the current run has requested and written (not program state)
    extracted,             \* result of get_truth_from_mapped_questions on the questions
    extracted_earlier,     \* result of the earlier extractor on the questions
    paging,                \* frame of a get_questions call: its list, total and last request
    suspended              \* the second invocation on the output directory while the first runs

server == <<refs, hits, id_same, questions>>
files == <<truth_json, truth_csv, truth_non_corpus_csv, pau_ids_csv, corpus_csv>>
locals == <<args, mapped_questions, document_ids, pau_ids, counts, checkpoint, truth>>
extraction == <<extracted, extracted_earlier, paging, suspended>>
vars == <<server, files, pc, runs, outcome, locals, history, extraction>>

\* --------------------------------------------------- Source Project
\* The "id" field of a PAU record, which need not be the id used to look it up.
OwnId(pau_id) == IF id_same THEN pau_id ELSE pau_id \o pau_id

NoPau == [hit |-> FALSE, id |-> <<>>, responseMarkup |-> <<>>, title |-> <<>>, sourceName |-> <<>>]

\* A PAU record with its own id; its text, title and source name are told apart
\* by their last character.
PauRecord(id) ==
    [hit |-> TRUE, id |-> id, responseMarkup |-> id \o <<1>>, title |-> id \o <<2>>,
     sourceName |-> id \o <<3>>]

\* The "hits" of wcea/api/GroundTruth/paus/<pau_id>: none, or the record of the
\* answer unit followed by a record of another unit.
ServerHits(pau_id) ==
    IF pau_id \in hits
    THEN << PauRecord(OwnId(pau_id)), PauRecord(OwnId(pau_id) \o <<Comma>>) >>
    ELSE <<>>

get_pau_unchecked(pau_id) == PauRecord(OwnId(pau_id))

get_pau(pau_id) ==
    LET server_hits == ServerHits(pau_id)
    IN  IF server_hits # <<>> THEN server_hits[1] ELSE NoPau

\* Reference lists that name each answer unit once.
DocnoLists == { sorted(ids) : ids \in SUBSET PauIds }

\* Reference lists of up to MaxItems items, repeats allowed.
RepeatingDocnoLists == UNION { [1..n -> PauIds] : n \in 0..MaxItems }

\* pau_ids = [item["DOCNO"] for item in trec_document["items"]]; return set(pau_ids)
get_pau_ids_from_document(document_id) == Range(refs[document_id])

\* The questions of the project the corpus is downloaded from: one with a
\* direct answer per answer unit, one mapped to the first of them, one rejected.
ProjectQuestions ==
    [i \in 1..NumPaus |-> Question(i, Mapped, TRUE, OwnId(<<i>>), FALSE, 0, FALSE)]
    \o << Question(NumPaus + 1, Mapped, FALSE, <<>>, TRUE, 1, FALSE),
          Question(NumPaus + 2, Rejected, TRUE, OwnId(<<1>>), FALSE, 0, FALSE) >>

get_questions == questions

\* ------------------------------------------------------------- Init
NoExtraction == [done |-> FALSE]
None == [known |-> FALSE, value |-> 0]
NoPaging == [pc |-> "idle", honours |-> TRUE, questions |-> <<>>, total |-> None,
             offset |-> 0, accumulated |-> 0, requests |-> 0]
NoArgs == [checkpoint_frequency |-> 1, max_docs |-> NoMaxDocs]
NoCounts == [n |-> 0, m |-> 0]
NoTruth == [rows |-> <<>>, d |-> {}]
NoHistory == [phase |-> 0, resumed |-> FALSE, work |-> {}, recovered |-> {}, length |-> 0,
              requested |-> {}, written |-> <<>>, truth_before |-> <<>>,
              corpus_before |-> <<>>, removals |-> 0]

\* The position, locals and history of an invocation that takes no step.
Invocation(at, how, arguments) ==
    [pc |-> at, outcome |-> how, args |-> arguments, mapped_questions |-> <<>>,
     document_ids |-> {}, pau_ids |-> {}, counts |-> NoCounts, checkpoint |-> NoCheckpoint,
     truth |-> NoTruth, history |-> NoHistory]

NoInvocation == Invocation("idle", "none", NoArgs)

InitLocals ==
    /\ args = NoArgs
    /\ mapped_questions = <<>>
    /\ document_ids = {}
    /\ pau_ids = {}
    /\ counts = NoCounts
    /\ checkpoint = NoCheckpoint
    /\ truth = NoTruth

ClearLocals ==
    /\ args' = NoArgs
    /\ mapped_questions' = <<>>
    /\ document_ids' = {}
    /\ pau_ids' = {}
    /\ counts' = NoCounts
    /\ checkpoint' = NoCheckpoint
    /\ truth' = NoTruth

Init ==
    /\ refs \in [DocIds -> DocnoLists]
    /\ hits \in SUBSET PauIds
    /\ id_same \in BOOLEAN
    /\ questions = ProjectQuestions
    /\ truth_json = Absent
    /\ truth_csv = Absent
    /\ truth_non_corpus_csv = Absent
    /\ pau_ids_csv = Absent
    /\ corpus_csv = Absent
    /\ pc = "idle"
    /\ runs = 0
    /\ outcome = "none"
    /\ InitLocals
    /\ history = NoHistory
    /\ extracted = NoExtraction
    /\ extracted_earlier = NoExtraction
    /\ paging = NoPaging
    /\ suspended = NoInvocation

\* ---------------------------------------------------------- actions
Return(how) ==
    /\ pc' = "idle"
    /\ outcome' = how
    /\ ClearLocals

\* download_from_xmgr: a process starts with its arguments.
StartRun ==
    /\ pc = "idle"
    /\ runs < MaxRuns
    /\ runs' = runs + 1
    /\ pc' = "download_truth"
    /\ outcome' = "running"
    /\ \E f \in Frequencies, k \in MaxDocsInputs :
          /\ args' = [checkpoint_frequency |-> f, max_docs |-> k]
          /\ history' = [NoHistory EXCEPT !.resumed = pau_ids_csv.exists,
                                           !.removals = history.removals]
    /\ UNCHANGED <<extraction, server, files, mapped_questions, document_ids, pau_ids, counts,
                   checkpoint, truth>>

\* The process is killed: its memory is lost, the files stay as they are.
Kill ==
    /\ pc # "idle"
    /\ Return("killed")
    /\ UNCHANGED <<extraction, server, files, runs, history>>

TruthDownloadedEither == truth_json.exists \/ truth_csv.exists

\* os.path.isfile(truth_json) and os.path.isfile(truth_csv)
TruthDownloaded == truth_json.exists /\ truth_csv.exists

TruthSkip ==
    /\ pc = "download_truth"
    /\ TruthDownloaded
    /\ pc' = "download_corpus"
    /\ UNCHANGED <<extraction, server, files, runs, outcome, locals, history>>

TruthGetQuestions ==
    /\ pc = "download_truth"
    /\ ~TruthDownloaded
    /\ mapped_questions' = NotRejected(get_questions)
    /\ pc' = "truth_json"
    /\ UNCHANGED <<extraction, server, files, runs, outcome, args, document_ids, pau_ids, counts,
                   checkpoint, truth, history>>

TruthWriteJson ==
    /\ pc = "truth_json"
    /\ truth_json' = File(mapped_questions)
    /\ pc' = "truth_csv"
    /\ UNCHANGED <<extraction, server, truth_csv, truth_non_corpus_csv, pau_ids_csv, corpus_csv,
                   runs, outcome, locals, history>>

TruthWriteCsv ==
    /\ pc = "truth_csv"
    /\ LET result == get_truth_from_mapped_questions(mapped_questions)
       IN  IF result.raised # ""
           THEN Return(result.raised) /\ UNCHANGED truth_csv
           ELSE /\ truth_csv' = File(result.truth)
                /\ pc' = "download_corpus"
                /\ mapped_questions' = <<>>
                /\ UNCHANGED <<outcome, args, document_ids, pau_ids, counts, checkpoint, truth>>
    /\ UNCHANGED <<extraction, server, truth_json, truth_non_corpus_csv, pau_ids_csv, corpus_csv,
                   runs, history>>

CorpusDownloadedBoth == pau_ids_csv.exists /\ corpus_csv.exists

\* not os.path.isfile(pau_ids_csv) and os.path.isfile(corpus_csv)
CorpusDownloaded == ~pau_ids_csv.exists /\ corpus_csv.exists

CorpusSkip ==
    /\ pc = "download_corpus"
    /\ CorpusDownloaded
    /\ Return("skipped")
    /\ UNCHANGED <<extraction, server, files, runs, history>>

\* set(list(document_ids)[:max_docs]): any max_docs of the documents.
CappedDocuments(ids, max_docs) ==
    IF max_docs = NoMaxDocs THEN { ids }
    ELSE { S \in SUBSET ids : Cardinality(S) = Min(max_docs, Cardinality(ids)) }

GetDocuments ==
    /\ pc = "download_corpus"
    /\ ~CorpusDownloaded
    /\ document_ids' \in CappedDocuments(DocIds, args.max_docs)
    /\ pc' = "open_pau_ids"
    /\ UNCHANGED <<extraction, server, files, runs, outcome, args, mapped_questions, pau_ids, counts,
                   checkpoint, truth, history>>

RemainingDocumentsAll(ids, recovered) == ids

\* document_ids -= pau_ids_checkpoint.recovered
RemainingDocuments(ids, recovered) == ids \ recovered

OpenPauIds ==
    /\ pc = "open_pau_ids"
    /\ LET w == DataFrameCheckpoint(pau_ids_csv, args.checkpoint_frequency)
       IN  /\ checkpoint' = w
           /\ pau_ids_csv' = OpenedFile(pau_ids_csv)
           /\ document_ids' = RemainingDocuments(document_ids, w.recovered)
           /\ history' = [history EXCEPT !.phase = 1, !.work = document_ids,
                                         !.recovered = w.recovered,
                                         !.length = Len(pau_ids_csv.rows),
                                         !.requested = {}, !.written = <<>>]
    /\ pc' = "phase1"
    /\ UNCHANGED <<extraction, server, truth_json, truth_csv, truth_non_corpus_csv, corpus_csv,
                   runs, outcome, args, mapped_questions, pau_ids, counts, truth>>

Phase1Fetch(document_id) ==
    /\ pc = "phase1"
    /\ document_id \in document_ids
    /\ LET ids == get_pau_ids_from_document(document_id)
           row == [key |-> document_id, ids |-> serialize_pau_ids(ids)]
           w == CheckpointWrite(pau_ids_csv, checkpoint, row)
       IN  /\ pau_ids_csv' = w.file
           /\ checkpoint' = w.w
    /\ document_ids' = document_ids \ {document_id}
    /\ history' = [history EXCEPT !.requested = @ \cup {document_id},
                                  !.written = Append(@, document_id)]
    /\ UNCHANGED <<extraction, server, truth_json, truth_csv, truth_non_corpus_csv, corpus_csv,
                   pc, runs, outcome, args, mapped_questions, pau_ids, counts, truth>>

LoopDoneAlways(remaining) == TRUE

\* for ... in enumerate(document_ids, start) / enumerate(pau_ids, start): the loop
\* is left when every identifier has been visited.
LoopDone(remaining) == remaining = {}

FinallyNothing(file, w) == file

\* finally: pau_ids_checkpoint.close() / corpus_csv_checkpoint.close()
FinallyClose(file, w) == CheckpointClose(file, w)

\* xmgr.get_pau_ids_from_document raises (requests.get or r.json fails): the
\* finally clause closes the writer and the exception leaves the function.
Phase1RequestFails ==
    /\ pc = "phase1"
    /\ document_ids # {}
    /\ pau_ids_csv' = FinallyClose(pau_ids_csv, checkpoint)
    /\ Return("RequestException")
    /\ UNCHANGED <<extraction, server, truth_json, truth_csv, truth_non_corpus_csv, corpus_csv,
                   runs, history>>

Phase1Close ==
    /\ pc = "phase1"
    /\ LoopDone(document_ids)
    /\ pau_ids_csv' = FinallyClose(pau_ids_csv, checkpoint)
    /\ checkpoint' = NoCheckpoint
    /\ pc' = "read_pau_ids"
    /\ UNCHANGED <<extraction, server, truth_json, truth_csv, truth_non_corpus_csv, corpus_csv,
                   runs, outcome, args, mapped_questions, document_ids, pau_ids, counts,
                   truth, history>>

\* pandas.read_csv reads an empty field as NaN, a float, which has no split.
reduce_pau_ids(file) ==
    IF \E i \in 1..Len(file.rows) : file.rows[i].ids = <<>>
    THEN [raised |-> TRUE, ids |-> {}]
    ELSE [raised |-> FALSE,
          ids |-> UNION { deserialize_pau_ids(file.rows[i].ids) : i \in 1..Len(file.rows) }]

ReadPauIds ==
    /\ pc = "read_pau_ids"
    /\ LET result == reduce_pau_ids(pau_ids_csv)
       IN  IF result.raised
           THEN Return("AttributeError")
           ELSE /\ pau_ids' = result.ids
                /\ pc' = "open_corpus"
                /\ UNCHANGED <<outcome, args, mapped_questions, document_ids, counts,
                               checkpoint, truth>>
    /\ UNCHANGED <<extraction, server, files, runs, history>>

RemainingPausAll(ids, recovered) == ids

\* pau_ids -= corpus_csv_checkpoint.recovered
RemainingPaus(ids, recovered) == ids \ recovered

OpenCorpus ==
    /\ pc = "open_corpus"
    /\ LET w == DataFrameCheckpoint(corpus_csv, args.checkpoint_frequency)
           remaining == RemainingPaus(pau_ids, w.recovered)
       IN  /\ checkpoint' = w
           /\ corpus_csv' = OpenedFile(corpus_csv)
           /\ pau_ids' = remaining
           /\ counts' = [n |-> Cardinality(remaining), m |-> 0]
           /\ history' = [history EXCEPT !.phase = 2, !.work = pau_ids,
                                         !.recovered = w.recovered,
                                         !.length = Len(corpus_csv.rows),
                                         !.requested = {}, !.written = <<>>]
    /\ pc' = "phase2"
    /\ UNCHANGED <<extraction, server, truth_json, truth_csv, truth_non_corpus_csv, pau_ids_csv,
                   runs, outcome, args, mapped_questions, document_ids, truth>>

CorpusRowByLookupId(pau_id, pau) ==
    [key |-> pau_id, Answer |-> pau.responseMarkup, Title |-> pau.title,
     Filename |-> pau.sourceName]

\* corpus_csv_checkpoint.write(pau["id"], answer_text, title, filename)
CorpusRow(pau_id, pau) ==
    [key |-> pau.id, Answer |-> pau.responseMarkup, Title |-> pau.title,
     Filename |-> pau.sourceName]

AdvanceNowhere(remaining, visited) == remaining

\* for i, pau_id in enumerate(pau_ids, start): the iteration over the set moves
\* on, an element is not visited again.
Advance(remaining, visited) == remaining \ {visited}

\* One iteration of the phase 2 loop; pau_ids holds the identifiers still to visit.
Phase2Fetch(pau_id) ==
    /\ pc = "phase2"
    /\ pau_id \in pau_ids
    /\ LET pau == get_pau(pau_id)
           row == CorpusRow(pau_id, pau)
           w == CheckpointWrite(corpus_csv, checkpoint, row)
       IN  IF pau.hit
           THEN /\ corpus_csv' = w.file
                /\ checkpoint' = w.w
                /\ counts' = [counts EXCEPT !.m = @ + 1]
                /\ history' = [history EXCEPT !.requested = @ \cup {pau_id},
                                              !.written = Append(@, row.key)]
           ELSE /\ history' = [history EXCEPT !.requested = @ \cup {pau_id}]
                /\ UNCHANGED <<corpus_csv, checkpoint, counts>>
    /\ pau_ids' = Advance(pau_ids, pau_id)
    /\ UNCHANGED <<extraction, server, truth_json, truth_csv, truth_non_corpus_csv, pau_ids_csv,
                   pc, runs, outcome, args, mapped_questions, document_ids, truth>>

\* xmgr.get_pau raises: the finally clause closes the writer and the exception
\* leaves the function.
Phase2RequestFails ==
    /\ pc = "phase2"
    /\ pau_ids # {}
    /\ corpus_csv' = FinallyClose(corpus_csv, checkpoint)
    /\ Return("RequestException")
    /\ UNCHANGED <<extraction, server, truth_json, truth_csv, truth_non_corpus_csv, pau_ids_csv,
                   runs, history>>

Phase2Close ==
    /\ pc = "phase2"
    /\ LoopDone(pau_ids)
    /\ corpus_csv' = FinallyClose(corpus_csv, checkpoint)
    /\ checkpoint' = NoCheckpoint
    /\ pc' = "log_ratio"
    /\ UNCHANGED <<extraction, server, truth_json, truth_csv, truth_non_corpus_csv, pau_ids_csv,
                   runs, outcome, args, mapped_questions, document_ids, pau_ids, counts,
                   truth, history>>

\* logger.info("... (%0.4f)" % (n, m, m / float(n)))
LogRatio ==
    /\ pc = "log_ratio"
    /\ IF counts.n = 0
       THEN Return("ZeroDivisionError")
       ELSE /\ pc' = "remove_pau_ids"
            /\ UNCHANGED <<outcome, locals>>
    /\ UNCHANGED <<extraction, server, files, runs, history>>

RemovePauIdsInLoop ==
    /\ pc \in {"phase2", "remove_pau_ids"}
    /\ pau_ids_csv' = Absent
    /\ pc' = "verify_answer_ids"
    /\ UNCHANGED <<extraction, server, truth_json, truth_csv, truth_non_corpus_csv, corpus_csv,
                   runs, outcome, locals, history>>

\* os.remove(pau_ids_csv)
RemovePauIds ==
    /\ pc = "remove_pau_ids"
    /\ pau_ids_csv' = Absent
    /\ pc' = "verify_answer_ids"
    /\ UNCHANGED <<extraction, server, truth_json, truth_csv, truth_non_corpus_csv, corpus_csv,
                   runs, outcome, locals, history>>

\* ------------------------------------------------ Consistency Verifier
MissingAnswerIdsNone(truth_ids, corpus_ids) == {}

\* d = truth_ids - corpus_ids
MissingAnswerIds(truth_ids, corpus_ids) == truth_ids \ corpus_ids

AnyMissingAlways(d) == TRUE

\* if d:
AnyMissing(d) == d # {}

\* truth[truth[ANSWER_ID].isin(d)]
NonCorpusRows(rows, d) == SelectSeq(rows, LAMBDA r : r.AnswerId \in d)

CorpusRowsAll(rows, d) == rows

\* truth[~truth[ANSWER_ID].isin(d)]
CorpusRows(rows, d) == SelectSeq(rows, LAMBDA r : r.AnswerId \notin d)

VerifyRead ==
    /\ pc = "verify_answer_ids"
    /\ history' = [history EXCEPT !.phase = 3, !.truth_before = truth_csv.rows,
                                  !.corpus_before = corpus_csv.rows]
    /\ IF ~truth_csv.exists
       THEN Return("IOError")
       ELSE LET d == MissingAnswerIds(AnswerIds(truth_csv), Keys(corpus_csv))
            IN  IF ~AnyMissing(d)
                THEN Return("done")
                ELSE /\ truth' = [rows |-> truth_csv.rows, d |-> d]
                     /\ pc' = "write_non_corpus"
                     /\ UNCHANGED <<outcome, args, mapped_questions, document_ids, pau_ids,
                                    counts, checkpoint>>
    /\ UNCHANGED <<extraction, server, files, runs>>

VerifyWriteNonCorpus ==
    /\ pc = "write_non_corpus"
    /\ truth_non_corpus_csv' = File(NonCorpusRows(truth.rows, truth.d))
    /\ pc' = "remove_truth"
    /\ UNCHANGED <<extraction, server, truth_json, truth_csv, pau_ids_csv, corpus_csv,
                   runs, outcome, locals, history>>

VerifyRemoveTruth ==
    /\ pc = "remove_truth"
    /\ truth' = [truth EXCEPT !.rows = CorpusRows(truth.rows, truth.d)]
    /\ truth_csv' = Absent
    /\ history' = [history EXCEPT !.removals = @ + 1]
    /\ pc' = "write_truth"
    /\ UNCHANGED <<extraction, server, truth_json, truth_non_corpus_csv, pau_ids_csv, corpus_csv,
                   runs, outcome, args, mapped_questions, document_ids, pau_ids, counts,
                   checkpoint>>

VerifyWriteTruth ==
    /\ pc = "write_truth"
    /\ truth_csv' = File(truth.rows)
    /\ Return("done")
    /\ UNCHANGED <<extraction, server, truth_json, truth_non_corpus_csv, pau_ids_csv, corpus_csv,
                   runs, history>>

Next ==
    \/ StartRun
    \/ Kill
    \/ TruthSkip
    \/ TruthGetQuestions
    \/ TruthWriteJson
    \/ TruthWriteCsv
    \/ CorpusSkip
    \/ GetDocuments
    \/ OpenPauIds
    \/ \E document_id \in DocIds : Phase1Fetch(document_id)
    \/ Phase1RequestFails
    \/ Phase1Close
    \/ ReadPauIds
    \/ OpenCorpus
    \/ \E pau_id \in PauIds : Phase2Fetch(pau_id)
    \/ Phase2RequestFails
    \/ Phase2Close
    \/ LogRatio
    \/ RemovePauIds
    \/ VerifyRead
    \/ VerifyWriteNonCorpus
    \/ VerifyRemoveTruth
    \/ VerifyWriteTruth

Spec == Init /\ [][Next]_vars

\* ------------------------------------- the Truth Extractor on its own
\* Every list of NumQuestions Question records with the ids 1..NumQuestions: a
\* record is rejected, or has any combination of a direct answer, a mapping to a
\* question (NumQuestions + 1 is the id of no question) and the off-topic flag.
QuestionRecords(id) ==
    { Question(id, Rejected, FALSE, <<>>, FALSE, 0, FALSE) }
    \cup { Question(id, Mapped, hasPau, IF hasPau THEN <<id>> ELSE <<>>,
                    target # 0, target, offTopic) :
             hasPau \in BOOLEAN, target \in 0..(NumQuestions + 1), offTopic \in BOOLEAN }

QuestionLists ==
    { list \in [1..NumQuestions -> UNION { QuestionRecords(id) : id \in 1..NumQuestions }] :
         \A id \in 1..NumQuestions : list[id].id = id }

InitTruth ==
    /\ refs = [document_id \in DocIds |-> <<>>]
    /\ hits = {}
    /\ id_same = TRUE
    /\ questions \in QuestionLists
    /\ truth_json = Absent
    /\ truth_csv = Absent
    /\ truth_non_corpus_csv = Absent
    /\ pau_ids_csv = Absent
    /\ corpus_csv = Absent
    /\ pc = "idle"
    /\ runs = 0
    /\ outcome = "none"
    /\ InitLocals
    /\ history = NoHistory
    /\ extracted = NoExtraction
    /\ extracted_earlier = NoExtraction
    /\ paging = NoPaging
    /\ suspended = NoInvocation

ExtractTruth ==
    /\ ~extracted.done
    /\ extracted' = [done |-> TRUE,
                     result |-> get_truth_from_mapped_questions(NotRejected(get_questions))]
    /\ UNCHANGED <<server, files, pc, runs, outcome, locals, history, extracted_earlier, paging, suspended>>

ExtractTruthEarlier ==
    /\ ~extracted_earlier.done
    /\ extracted_earlier' =
           [done |-> TRUE,
            result |-> themis_get_truth_from_mapped_questions(NotRejected(get_questions))]
    /\ UNCHANGED <<server, files, pc, runs, outcome, locals, history, extracted, paging, suspended>>

NextTruth ==
    \/ ExtractTruth
    \/ ExtractTruthEarlier

SpecTruth == InitTruth /\ [][NextTruth]_vars

\* --------------------------------------- XmgrProject.get_questions on its own
\* The project holds up to MaxTotal questions; the server answers a request with
\* the total and a page of at most MaxPage items, of a size it chooses.  A server
\* that honours offsets returns the items that follow the offset, another one
\* the items that follow any position.
PagedQuestionLists ==
    UNION { [1..n -> { Question(id, state, TRUE, <<id>>, FALSE, 0, FALSE) :
                          id \in 1..MaxTotal, state \in {Mapped, Rejected} }] :
            n \in 0..MaxTotal }

InitPages ==
    /\ refs = [document_id \in DocIds |-> <<>>]
    /\ hits = {}
    /\ id_same = TRUE
    /\ questions \in { list \in PagedQuestionLists : \A i \in 1..Len(list) : list[i].id = i }
    /\ truth_json = Absent
    /\ truth_csv = Absent
    /\ truth_non_corpus_csv = Absent
    /\ pau_ids_csv = Absent
    /\ corpus_csv = Absent
    /\ pc = "idle"
    /\ runs = 0
    /\ outcome = "none"
    /\ InitLocals
    /\ history = NoHistory
    /\ extracted = NoExtraction
    /\ extracted_earlier = NoExtraction
    /\ paging \in { [NoPaging EXCEPT !.honours = h] : h \in BOOLEAN }
    /\ suspended = NoInvocation

\* response["items"] for a request with the given offset and a page of size items.
Items(from, size) == SubSeq(questions, from + 1, Min(from + size, Len(questions)))

RequestOffsetFirst(accumulated) == 0

\* params={"offset": len(questions), ...}
RequestOffset(accumulated) == Len(accumulated)

\* questions = []; total = None
GetQuestionsCall ==
    /\ paging.pc = "idle"
    /\ paging' = [paging EXCEPT !.pc = "loop"]
    /\ UNCHANGED <<server, files, pc, runs, outcome, locals, history, extracted, extracted_earlier,
                   suspended>>

\* One iteration of the while loop: a request and the extension of the list.
\* requests is the number of requests issued so far, kept modulo 2.
GetQuestionsRequest ==
    /\ paging.pc = "loop"
    /\ ~paging.total.known \/ Len(paging.questions) < paging.total.value
    /\ \E size \in 0..MaxPage, position \in 0..Len(questions) :
          LET offset == RequestOffset(paging.questions)
              from == IF paging.honours THEN offset ELSE position
          IN  /\ paging.honours => position = 0
              /\ paging' = [paging EXCEPT
                     !.total = IF paging.total.known THEN @
                               ELSE [known |-> TRUE, value |-> Len(questions)],
                     !.questions = @ \o Items(from, size),
                     !.offset = offset,
                     !.accumulated = Len(paging.questions),
                     !.requests = (@ + 1) % 2]
    /\ UNCHANGED <<server, files, pc, runs, outcome, locals, history, extracted, extracted_earlier,
                   suspended>>

GetQuestionsReturn ==
    /\ paging.pc = "loop"
    /\ paging.total.known
    /\ Len(paging.questions) >= paging.total.value
    /\ paging' = [paging EXCEPT !.pc = "returned"]
    /\ UNCHANGED <<server, files, pc, runs, outcome, locals, history, extracted, extracted_earlier,
                   suspended>>

NextPages ==
    \/ GetQuestionsCall
    \/ GetQuestionsRequest
    \/ GetQuestionsReturn

SpecPages == InitPages /\ [][NextPages]_vars

\* The call runs on: whenever get_questions can take a step, it takes one.
SpecPagesFair == SpecPages /\ WF_vars(NextPages)

\* ------------------------------------------------------------------
\* Two invocations of download_corpus_from_xmgr on one output directory.  One
\* of them runs, the other is suspended; the scheduler switches between them at
\* any point.  Both have passed the truth download; the steps are those of the
\* two checkpointed phases.
InitConcurrent ==
    /\ refs \in [DocIds -> DocnoLists]
    /\ hits = PauIds
    /\ id_same \in BOOLEAN
    /\ questions = ProjectQuestions
    /\ truth_json = Absent
    /\ truth_csv = Absent
    /\ truth_non_corpus_csv = Absent
    /\ pau_ids_csv = Absent
    /\ corpus_csv = Absent
    /\ pc = "download_corpus"
    /\ runs = 2
    /\ outcome = "running"
    /\ \E f \in Frequencies :
          /\ args = [checkpoint_frequency |-> f, max_docs |-> NoMaxDocs]
          /\ suspended = Invocation("download_corpus", "running", args)
    /\ mapped_questions = <<>>
    /\ document_ids = {}
    /\ pau_ids = {}
    /\ counts = NoCounts
    /\ checkpoint = NoCheckpoint
    /\ truth = NoTruth
    /\ history = NoHistory
    /\ extracted = NoExtraction
    /\ extracted_earlier = NoExtraction
    /\ paging = NoPaging

\* The running invocation is suspended with its position and locals, and the
\* other one goes on where it was.
Switch ==
    /\ suspended' = [pc |-> pc, outcome |-> outcome, args |-> args,
                     mapped_questions |-> mapped_questions, document_ids |-> document_ids,
                     pau_ids |-> pau_ids, counts |-> counts, checkpoint |-> checkpoint,
                     truth |-> truth, history |-> history]
    /\ pc' = suspended.pc
    /\ outcome' = suspended.outcome
    /\ args' = suspended.args
    /\ mapped_questions' = suspended.mapped_questions
    /\ document_ids' = suspended.document_ids
    /\ pau_ids' = suspended.pau_ids
    /\ counts' = suspended.counts
    /\ checkpoint' = suspended.checkpoint
    /\ truth' = suspended.truth
    /\ history' = suspended.history
    /\ UNCHANGED <<server, files, runs, extracted, extracted_earlier, paging>>

NextConcurrent ==
    \/ Switch
    \/ GetDocuments
    \/ OpenPauIds
    \/ \E document_id \in DocIds : Phase1Fetch(document_id)
    \/ Phase1Close
    \/ ReadPauIds
    \/ OpenCorpus
    \/ \E pau_id \in PauIds : Phase2Fetch(pau_id)
    \/ Phase2Close

SpecConcurrent == InitConcurrent /\ [][NextConcurrent]_vars

\* ------------------------------------------------------------------
\* One invocation of download_corpus_from_xmgr on an empty output directory,
\* with a server whose documents repeat references and share answer units.
InitRepeats ==
    /\ refs \in [DocIds -> RepeatingDocnoLists]
    /\ hits \in SUBSET PauIds
    /\ id_same = TRUE
    /\ questions = ProjectQuestions
    /\ truth_json = Absent
    /\ truth_csv = Absent
    /\ truth_non_corpus_csv = Absent
    /\ pau_ids_csv = Absent
    /\ corpus_csv = Absent
    /\ pc = "download_corpus"
    /\ runs = 1
    /\ outcome = "running"
    /\ \E f \in Frequencies : args = [checkpoint_frequency |-> f, max_docs |-> NoMaxDocs]
    /\ mapped_questions = <<>>
    /\ document_ids = {}
    /\ pau_ids = {}
    /\ counts = NoCounts
    /\ checkpoint = NoCheckpoint
    /\ truth = NoTruth
    /\ history = NoHistory
    /\ extracted = NoExtraction
    /\ extracted_earlier = NoExtraction
    /\ paging = NoPaging
    /\ suspended = NoInvocation

NextRepeats ==
    \/ GetDocuments
    \/ OpenPauIds
    \/ \E document_id \in DocIds : Phase1Fetch(document_id)
    \/ Phase1Close
    \/ ReadPauIds
    \/ OpenCorpus
    \/ \E pau_id \in PauIds : Phase2Fetch(pau_id)
    \/ Phase2Close

SpecRepeats == InitRepeats /\ [][NextRepeats]_vars

\* ------------------------------------------------------------------
\* verify_answer_ids called on an output directory with a truth.csv and a
\* corpus.csv, and called once more on what the first call left.
TruthTables ==
    UNION { [1..n -> { [QuestionId |-> q, AnswerId |-> id] : q \in 1..MaxItems, id \in PauIds }] :
                n \in 0..MaxItems }

InitVerify ==
    /\ refs = [document_id \in DocIds |-> <<>>]
    /\ hits = PauIds
    /\ id_same = TRUE
    /\ questions = ProjectQuestions
    /\ truth_json = Absent
    /\ \E table \in TruthTables :
          /\ \A i \in 1..Len(table) : table[i].QuestionId = i
          /\ truth_csv = File(table)
    /\ truth_non_corpus_csv = Absent
    /\ pau_ids_csv = Absent
    /\ \E ids \in SUBSET PauIds :
          corpus_csv = File([i \in 1..Cardinality(ids) |->
                                CorpusRow(sorted(ids)[i], get_pau(sorted(ids)[i]))])
    /\ pc = "verify_answer_ids"
    /\ runs = 1
    /\ outcome = "running"
    /\ InitLocals
    /\ history = NoHistory
    /\ extracted = NoExtraction
    /\ extracted_earlier = NoExtraction
    /\ paging = NoPaging
    /\ suspended = NoInvocation

\* The second call of verify_answer_ids, on the files the first call left.
VerifyAgain ==
    /\ pc = "idle"
    /\ outcome = "done"
    /\ runs = 1
    /\ runs' = 2
    /\ pc' = "verify_answer_ids"
    /\ outcome' = "running"
    /\ UNCHANGED <<extraction, server, files, locals, history>>

NextVerify ==
    \/ VerifyRead
    \/ VerifyWriteNonCorpus
    \/ VerifyRemoveTruth
    \/ VerifyWriteTruth
    \/ VerifyAgain

SpecVerify == InitVerify /\ [][NextVerify]_vars

\* ==================================================================
\* Properties of the download pipeline (Spec)

\* The last run was cut short from outside: killed, or a request failed.
Interrupted == outcome \in {"killed", "RequestException"}

\* C1: phase 1 resume.  A run issues no get_pau_ids_from_document request for a
\* document key recovered from pau_ids.csv, and when phase 1 has finished the keys
\* of pau_ids.csv are exactly the recovered keys plus the documents requested in
\* this run, each key in exactly one row.
C1_Phase1Resume ==
    /\ history.phase = 1 => history.requested \cap history.recovered = {}
    /\ pc = "read_pau_ids" =>
          /\ Keys(pau_ids_csv) = history.recovered \cup history.requested
          /\ NoDuplicateKeys(pau_ids_csv)
          /\ Len(pau_ids_csv.rows) = history.length + Cardinality(history.requested)

\* A resumed run has finished phase 1 with old keys and newly fetched ones.
C1_Witness ==
    /\ pc = "read_pau_ids"
    /\ history.recovered # {}
    /\ history.requested # {}

\* C2: phase 2 resume.  A run issues no get_pau request for an answer unit whose
\* row is already in corpus.csv, and when the phase 2 loop has finished corpus.csv
\* holds the recovered keys plus the keys written in this run, no key in two rows.
C2_Phase2Resume ==
    /\ history.phase = 2 =>
          \A pau_id \in history.requested : get_pau(pau_id).id \notin history.recovered
    /\ pc = "log_ratio" =>
          /\ Keys(corpus_csv) = history.recovered \cup Range(history.written)
          /\ NoDuplicateKeys(corpus_csv)

\* C3: checkpoint durability.  When the process has been killed while a checkpoint
\* writer was in use, a fresh writer opened on that checkpoint file recovers
\* exactly the keys recovered at open plus the keys of the write calls that had
\* returned, one row for each, whatever checkpoint_frequency the extractor passed.
C3_CheckpointDurability ==
    (pc = "idle" /\ outcome = "killed" /\ history.phase \in {1, 2}) =>
        LET file == IF history.phase = 1 THEN pau_ids_csv ELSE corpus_csv
        IN  /\ file.exists
            /\ DataFrameCheckpoint(file, 1).recovered =
                   history.recovered \cup Range(history.written)
            /\ Len(file.rows) = history.length + Len(history.written)

\* C4: resume completes.  A run restarted on the files an interrupted run left
\* (pau_ids.csv present) that has worked through phase 1 and is not interrupted ends
\* normally, with corpus.csv present, pau_ids.csv deleted and the Verifier run.
C4_ResumeCompletes ==
    (pc = "idle" /\ history.resumed /\ history.phase >= 2 /\ ~Interrupted) =>
        /\ outcome = "done"
        /\ corpus_csv.exists
        /\ ~pau_ids_csv.exists

\* C5: verification closure.  When verify_answer_ids has returned, every AnswerId
\* of truth.csv is the AnswerId of a row of corpus.csv.
C5_VerificationClosure ==
    outcome = "done" =>
        /\ truth_csv.exists
        /\ AnswerIds(truth_csv) \subseteq Keys(corpus_csv)

\* The Verifier has returned after removing rows from truth.csv.
C5_Witness ==
    /\ outcome = "done"
    /\ truth_non_corpus_csv.exists
    /\ AnswerIds(truth_non_corpus_csv) # {}

\* C6: verifier partition.  When verify_answer_ids has returned, the rows of
\* truth.csv and of truth.non_corpus.csv are disjoint, together they are the rows
\* truth.csv had before, the removed rows are the rows of truth.non_corpus.csv,
\* and corpus.csv is as it was.
C6_VerifierPartition ==
    outcome = "done" =>
        LET before == Range(history.truth_before)
            after == Range(truth_csv.rows)
            moved == Range(truth_non_corpus_csv.rows)
        IN  /\ after \cap moved = {}
            /\ after \cup moved = before
            /\ before \ after = moved
            /\ Len(truth_csv.rows) + Len(truth_non_corpus_csv.rows) = Len(history.truth_before)
            /\ corpus_csv.rows = history.corpus_before

\* The Verifier has split a truth table into a kept and a removed part.
C6_Witness ==
    /\ outcome = "done"
    /\ Len(truth_non_corpus_csv.rows) > 0
    /\ Len(truth_csv.rows) > 0
    /\ Len(corpus_csv.rows) > 0

\* C7: downstream precondition across restarts.  Whenever no run is in progress
\* and the corpus counts as downloaded (corpus.csv present, pau_ids.csv absent),
\* every AnswerId of truth.csv is in corpus.csv.
C7_DownstreamPrecondition ==
    (pc = "idle" /\ CorpusDownloaded) =>
        AnswerIds(truth_csv) \subseteq Keys(corpus_csv)

\* C10: union reconstruction.  Re-reading pau_ids.csv after phase 1 yields the
\* union, over every row of the file, of the identifier set serialized into it.
C10_UnionReconstruction ==
    pc = "read_pau_ids" =>
        LET result == reduce_pau_ids(pau_ids_csv)
        IN  /\ ~result.raised
            /\ result.ids = UNION { get_pau_ids_from_document(key) : key \in Keys(pau_ids_csv) }

\* C11: set-difference work derivation.  In both phases the keys still to visit
\* and the keys requested so far are together exactly W - R (W the capped document
\* ids in phase 1 and the union read from pau_ids.csv in phase 2, R the recovered
\* keys), so that when the loop has finished the requests issued are exactly
\* W - R; this holds also when R has keys that are not in W.
C11_SetDifference ==
    /\ pc = "phase1" =>
          /\ history.requested \cup document_ids = history.work \ history.recovered
          /\ history.requested \cap document_ids = {}
    /\ pc = "read_pau_ids" => history.requested = history.work \ history.recovered
    /\ pc = "phase2" =>
          /\ history.work = reduce_pau_ids(pau_ids_csv).ids
          /\ history.requested \cup pau_ids = history.work \ history.recovered
          /\ history.requested \cap pau_ids = {}
    /\ pc = "log_ratio" => history.requested = history.work \ history.recovered

\* Phase 2 has finished in a run that recovered a part of its work set and
\* requested the rest.
C11_Witness ==
    /\ pc = "log_ratio"
    /\ history.recovered \cap history.work # {}
    /\ history.requested # {}
    /\ history.requested # history.work

\* C12: end to end.  A run started on an empty output directory and not interrupted
\* ends normally; corpus.csv then holds exactly one row for each answer unit that
\* the documents of the run reference and the server has a hit for, and every row
\* truth.csv had whose AnswerId has no corpus row is in truth.non_corpus.csv and
\* not in truth.csv.
C12_EndToEnd ==
    (pc = "idle" /\ runs = 1 /\ ~Interrupted) =>
        /\ outcome = "done"
        /\ corpus_csv.exists
        /\ NoDuplicateKeys(corpus_csv)
        /\ Keys(corpus_csv) = { get_pau(pau_id).id : pau_id \in history.work \cap hits }
        /\ \A i \in 1..Len(history.truth_before) :
              LET row == history.truth_before[i]
              IN  row.AnswerId \notin Keys(corpus_csv) =>
                      /\ row \in Range(truth_non_corpus_csv.rows)
                      /\ row \notin Range(truth_csv.rows)

\* C13: truth skip.  A step of download_truth_from_xmgr from its entry, when
\* truth.json and truth.csv both exist, returns to the caller with no get_questions
\* request and both files as they were; when either is missing it requests the
\* questions, and the function returns only with both files written.
C13_TruthSkip ==
    [][ /\ (pc = "download_truth" /\ pc' # "idle") =>
              IF truth_json.exists /\ truth_csv.exists
              THEN /\ pc' = "download_corpus"
                   /\ mapped_questions' = mapped_questions
                   /\ truth_json' = truth_json
                   /\ truth_csv' = truth_csv
              ELSE /\ pc' = "truth_json"
                   /\ mapped_questions' = NotRejected(get_questions)
        /\ (pc # "download_corpus" /\ pc' = "download_corpus") =>
              truth_json'.exists /\ truth_csv'.exists
      ]_vars

\* A second run has passed download_truth_from_xmgr on the files of a run that
\* was interrupted in the corpus download.
C13_Witness ==
    /\ pc = "download_corpus"
    /\ runs = 2
    /\ pau_ids_csv.exists
    /\ truth_json.exists
    /\ truth_csv.exists

\* C14: corpus skip.  Whenever corpus.csv is present when
\* download_corpus_from_xmgr is called, the call returns at once: no request is
\* issued, no file is modified and the Verifier is not run.
C14_CorpusSkip ==
    [][ (pc = "download_corpus" /\ corpus_csv.exists) =>
            /\ pc' = "idle"
            /\ files' = files
            /\ document_ids' = document_ids
      ]_vars

\* C14 as the code has it: whenever corpus.csv is present and pau_ids.csv is
\* absent when download_corpus_from_xmgr is called, the call returns at once with
\* no request issued, no file modified and the Verifier not run.
C14_CorpusSkipWhenComplete ==
    [][ (pc = "download_corpus" /\ corpus_csv.exists /\ ~pau_ids_csv.exists) =>
            /\ pc' = "idle"
            /\ files' = files
            /\ document_ids' = document_ids
            /\ history' = history
      ]_vars

\* A run has returned from download_corpus_from_xmgr with "Corpus already
\* downloaded".
C14_Witness ==
    /\ outcome = "skipped"
    /\ corpus_csv.exists
    /\ ~pau_ids_csv.exists
    /\ history.phase = 0

\* The rows of a file are still there, in place, with rows added after them at most.
Appended(before, after) ==
    /\ Len(before) <= Len(after)
    /\ SubSeq(after, 1, Len(before)) = before

\* C16: append-only checkpoints.  No step of any run, kill or restart rewrites,
\* removes or reorders a row of pau_ids.csv or corpus.csv: a step leaves the rows
\* of each file in place and at most adds rows after them; corpus.csv is never
\* removed, and pau_ids.csv only by the deletion that follows phase 2.
C16_AppendOnly ==
    [][ /\ pau_ids_csv.exists =>
              IF pau_ids_csv'.exists
              THEN Appended(pau_ids_csv.rows, pau_ids_csv'.rows)
              ELSE pc = "remove_pau_ids" /\ pc' = "verify_answer_ids"
        /\ corpus_csv.exists =>
              /\ corpus_csv'.exists
              /\ Appended(corpus_csv.rows, corpus_csv'.rows)
      ]_vars

\* A resumed run has added a row to a corpus.csv that already had rows.
C16_Witness ==
    /\ pc = "phase2"
    /\ history.length > 0
    /\ Len(corpus_csv.rows) > history.length

\* C17: guaranteed cleanup.  When a request of the phase 1 or phase 2 loop has
\* raised, the exception has left download_corpus_from_xmgr with the phase's
\* checkpoint file closed and holding, after the rows it had at open, one row for
\* every write of this run in the order written; pau_ids.csv has not been
\* deleted, and neither a later phase nor the Verifier has run.
C17_GuaranteedCleanup ==
    (pc = "idle" /\ outcome = "RequestException") =>
        /\ history.phase \in {1, 2}
        /\ ~checkpoint.open
        /\ LET file == IF history.phase = 1 THEN pau_ids_csv ELSE corpus_csv
           IN  /\ file.exists
               /\ Len(file.rows) = history.length + Len(history.written)
               /\ \A i \in 1..Len(history.written) :
                      file.rows[history.length + i].key = history.written[i]
        /\ pau_ids_csv.exists
        /\ history.truth_before = <<>>
        /\ history.corpus_before = <<>>

\* A request has failed after the run had written a row.
C17_Witness ==
    /\ pc = "idle"
    /\ outcome = "RequestException"
    /\ history.phase = 2
    /\ Len(history.written) = 1


\* C18: missing content is not a failure.  In phase 2 the rows written and the
\* count m of fetched units are those of the requested identifiers the server had
\* a hit for, an identifier with zero hits adding no row and no count; the loop
\* goes on to every remaining identifier, and the run fails after the loop only
\* when it had nothing to request, never because identifiers had zero hits.
C18_MissingContent ==
    LET found == history.requested \cap hits
    IN  /\ (history.phase = 2 /\ pc \in {"phase2", "log_ratio", "remove_pau_ids"}) =>
              /\ Range(history.written) = { OwnId(pau_id) : pau_id \in found }
              /\ Len(history.written) = Cardinality(found)
              /\ counts.m = Cardinality(found)
        /\ pc \in {"log_ratio", "remove_pau_ids"} =>
              /\ history.requested = history.work \ history.recovered
              /\ counts.n = Cardinality(history.requested)
              /\ Len(corpus_csv.rows) = history.length + Cardinality(found)
        /\ outcome = "ZeroDivisionError" => history.requested = {}

\* Every identifier of the run had zero hits and the run has gone on to delete
\* pau_ids.csv.
C18_Witness ==
    /\ pc = "remove_pau_ids"
    /\ counts.n = NumPaus
    /\ counts.m = 0
    /\ history.requested \cap hits = {}
    /\ history.written = <<>>

\* C19: raw archive.  truth.json holds every Question record get_questions
\* returned, the records in the REJECTED state included.
C19_RawArchive ==
    truth_json.exists =>
        \A i \in 1..Len(get_questions) : get_questions[i] \in Range(truth_json.rows)

\* C20: truth.json is written once.  Once truth.json exists, no step of any later
\* run writes it again or changes its content, also not in a run restarted after
\* a kill inside the Verifier.
C20_TruthJsonWrittenOnce ==
    [][ truth_json.exists =>
            /\ truth_json' = truth_json
            /\ ~(pc = "truth_json" /\ pc' = "truth_csv")
      ]_vars


\* C21: the Verifier runs once and last.  Over all runs on one output directory
\* the Verifier deletes truth.csv at most once; a step changes or deletes an
\* existing truth.csv only if it is that deletion, taken when phase 2 has
\* completed (corpus.csv closed and complete for the run) and pau_ids.csv is
\* deleted; and the Verifier writes truth.csv only after its own deletion.
C21_VerifierOnceAndLast ==
    [][ /\ history'.removals <= 1
        /\ (truth_csv.exists /\ truth_csv' # truth_csv) =>
              /\ pc = "remove_truth"
              /\ ~truth_csv'.exists
              /\ history.phase = 3
              /\ ~pau_ids_csv.exists
              /\ corpus_csv.exists
              /\ corpus_csv.rows = history.corpus_before
        /\ (pc = "write_truth" /\ truth_csv'.exists) =>
              /\ ~truth_csv.exists
              /\ history.removals = 1
      ]_vars

\* The Verifier has deleted and rewritten truth.csv.
C21_Witness ==
    /\ outcome = "done"
    /\ history.removals = 1
    /\ truth_csv.exists
    /\ truth_non_corpus_csv.exists

\* C25: empty documents are harmless.  Every row of pau_ids.csv, the row of a
\* document that references no answer unit included, deserializes to the
\* identifier set that was serialized into it, the re-read raises no error, and
\* phase 2 requests only identifiers that documents reference.
C25_EmptyDocuments ==
    /\ pc = "read_pau_ids" =>
          /\ \A i \in 1..Len(pau_ids_csv.rows) :
                 deserialize_pau_ids(pau_ids_csv.rows[i].ids) =
                     get_pau_ids_from_document(pau_ids_csv.rows[i].key)
          /\ ~reduce_pau_ids(pau_ids_csv).raised
    /\ history.phase = 2 =>
          history.requested \subseteq UNION { get_pau_ids_from_document(d) : d \in DocIds }

\* The identifier an answer unit is requested with, from the unit's own id (an
\* own id starts with it).
LookupId(id) == SubSeq(id, 1, 1)

\* C26: corpus rows carry the answer unit's own identifier.  corpus.csv starts
\* absent, and every row a step adds to it is made of the first hit the server
\* returns for an identifier this run requested: its key is the "id" field of
\* that record, not the identifier used in the request, and its Answer, Title
\* and Filename are the responseMarkup, title and sourceName of the same record.
C26_OwnIdentifier ==
    [][ corpus_csv' # corpus_csv =>
            \A i \in (Len(corpus_csv.rows) + 1)..Len(corpus_csv'.rows) :
                LET row == corpus_csv'.rows[i]
                    pau_id == LookupId(row.key)
                    record == ServerHits(pau_id)[1]
                IN  /\ pau_id \in hits
                    /\ pau_id \in history'.requested
                    /\ history'.phase = 2
                    /\ row = [key |-> record.id, Answer |-> record.responseMarkup,
                               Title |-> record.title, Filename |-> record.sourceName]
                    /\ ~id_same => row.key # pau_id
      ]_vars

\* corpus.csv has a row of an answer unit whose own id is not the id it was
\* requested with.
C26_Witness ==
    /\ ~id_same
    /\ pc = "log_ratio"
    /\ Len(corpus_csv.rows) = NumPaus

\* The pcs of verify_answer_ids.
InVerifier == pc \in {"verify_answer_ids", "write_non_corpus", "remove_truth", "write_truth"}

\* C27: phase ordering within a run.  Phase 1 is left only with a row in
\* pau_ids.csv for every document id of the run's work set, no step between there
\* and the end of the get_pau loop changes pau_ids.csv, and a get_pau request is
\* issued only in the loop entered that way, so none is issued before the rows are
\* there; a step deletes pau_ids.csv only when the phase 2 loop has requested
\* every remaining identifier and the corpus writer is closed with its rows in
\* corpus.csv; and pau_ids.csv is deleted whenever the Verifier is at work.
C27_PhaseOrdering ==
    [][ /\ (pc = "phase1" /\ pc' = "read_pau_ids") =>
              /\ history.phase = 1
              /\ history.requested = history.work \ history.recovered
              /\ history.work \subseteq Keys(pau_ids_csv')
        /\ pc \in {"read_pau_ids", "open_corpus", "phase2"} =>
              /\ pau_ids_csv' = pau_ids_csv
              /\ pau_ids_csv.exists
        /\ pc' = "read_pau_ids" => pc = "phase1"
        /\ pc' = "open_corpus" => pc = "read_pau_ids"
        /\ pc' = "phase2" => pc \in {"open_corpus", "phase2"}
        /\ (history'.phase = 2 /\ history'.requested # history.requested) =>
              (pc = "phase2" \/ (pc = "open_corpus" /\ history'.requested = {}))
        /\ (pau_ids_csv.exists /\ ~pau_ids_csv'.exists) =>
              /\ history.phase = 2
              /\ history.requested = history.work \ history.recovered
              /\ ~checkpoint.open
              /\ Len(corpus_csv.rows) = history.length + Len(history.written)
        /\ InVerifier => (~pau_ids_csv.exists /\ history.phase >= 2)
        /\ InVerifier' => ~pau_ids_csv'.exists
      ]_vars

\* A run went through both phases, fetching documents and answer units, deleted
\* pau_ids.csv and reached the Verifier.
C27_Witness ==
    /\ pc = "verify_answer_ids"
    /\ history.phase = 2
    /\ Cardinality(Keys(corpus_csv)) = NumPaus
    /\ Cardinality(history.requested) = NumPaus
    /\ ~pau_ids_csv.exists

\* C28: the Verifier leaves a consistent truth untouched.  When verify_answer_ids
\* starts with every AnswerId of truth.csv present in corpus.csv, its step changes
\* no file and ends the Verifier (truth.csv is not deleted or rewritten,
\* truth.non_corpus.csv is not created); the Verifier goes on to write only when
\* a truth AnswerId is missing from corpus.csv, and truth.non_corpus.csv is
\* created or changed only by that write, with the rows of the missing AnswerIds.
C28_ConsistentTruthUntouched ==
    [][ /\ (pc = "verify_answer_ids" /\ truth_csv.exists
                /\ AnswerIds(truth_csv) \subseteq Keys(corpus_csv)) =>
              /\ files' = files
              /\ pc' = "idle"
        /\ (pc = "verify_answer_ids" /\ pc' = "write_non_corpus") =>
              ~(AnswerIds(truth_csv) \subseteq Keys(corpus_csv))
        /\ pc' \in {"write_non_corpus", "remove_truth", "write_truth"} =>
              pc \in {"verify_answer_ids", "write_non_corpus", "remove_truth"}
        /\ truth_non_corpus_csv' # truth_non_corpus_csv =>
              /\ pc = "write_non_corpus"
              /\ truth.d # {}
              /\ truth.d = AnswerIds(truth_csv) \ Keys(corpus_csv)
              /\ truth_non_corpus_csv'.exists
              /\ AnswerIds(truth_non_corpus_csv') = truth.d
      ]_vars

\* The Verifier has returned from a truth with rows that needed no filtering.
C28_Witness ==
    /\ outcome = "done"
    /\ history.phase = 3
    /\ history.removals = 0
    /\ truth_csv.rows # <<>>
    /\ truth_csv.rows = history.truth_before
    /\ ~truth_non_corpus_csv.exists

\* C30: an interrupted phase 2 is never mistaken for a finished corpus.
\* pau_ids.csv exists in every state from the start of phase 1 to the end of the
\* phase 2 loop and up to its deletion, and a step, of any run, makes "corpus.csv
\* present and pau_ids.csv absent" true only by deleting pau_ids.csv when the
\* phase 2 loop of that run has requested every remaining identifier and the
\* corpus writer is closed; the condition is false initially, so wherever it
\* holds some run processed phase 2 to the end.
C30_NeverMistakenForFinished ==
    [][ /\ pc \in {"phase1", "read_pau_ids", "open_corpus", "phase2", "log_ratio",
                    "remove_pau_ids"} => pau_ids_csv.exists
        /\ (~CorpusDownloaded /\ CorpusDownloaded') =>
              /\ pc = "remove_pau_ids"
              /\ history.phase = 2
              /\ pau_ids = {}
              /\ history.requested = history.work \ history.recovered
              /\ ~checkpoint.open
              /\ corpus_csv' = corpus_csv
              /\ Len(corpus_csv.rows) = history.length + Len(history.written)
      ]_vars

\* A run restarted on the pau_ids.csv of an interrupted run has finished phase 2
\* and deleted pau_ids.csv.
C30_Witness ==
    /\ CorpusDownloaded
    /\ runs >= 2
    /\ history.resumed
    /\ history.phase >= 2
    /\ history.recovered # {}

\* ==================================================================
\* Properties of the Truth Extractor (SpecTruth)

\* The AnswerId the truth table gives a question, if it has a row.
TruthAnswer(table, id) ==
    IF \E i \in 1..Len(table) : table[i].QuestionId = id
    THEN [found |-> TRUE,
          id |-> table[CHOOSE i \in 1..Len(table) : table[i].QuestionId = id].AnswerId]
    ELSE [found |-> FALSE, id |-> <<>>]

\* Following the mappings from a question ends, within fuel questions, at a
\* question with a direct answer or with no mapping.
RECURSIVE ChainEnds(_, _, _)
ChainEnds(index, id, fuel) ==
    IF fuel = 0 \/ id \notin DOMAIN index THEN FALSE
    ELSE IF index[id].hasPau \/ ~index[id].hasMapped THEN TRUE
    ELSE ChainEnds(index, index[id].mappedQuestion, fuel - 1)

\* The mapping graph of the non-rejected questions is acyclic and closed.
AcyclicMapping(index) ==
    \A id \in DOMAIN index : ChainEnds(index, id, Cardinality(DOMAIN index))

\* C8: transitive truth resolution.  For an acyclic mapping graph of non-rejected
\* Questions the truth table gives a Question with a direct predefinedAnswerUnit
\* that answer, gives a Question without one that is mapped to another Question
\* whatever that Question gets (a row with the same AnswerId, or no row), and
\* gives a Question with neither no row; no Question has two rows.
C8_TransitiveResolution ==
    LET index == QuestionIndex(NotRejected(questions))
    IN  (extracted.done /\ AcyclicMapping(index)) =>
            /\ extracted.result.raised = ""
            /\ LET table == extracted.result.truth
               IN  /\ \A i, j \in 1..Len(table) :
                          /\ table[i].QuestionId \in DOMAIN index
                          /\ table[i].QuestionId = table[j].QuestionId => i = j
                   /\ \A id \in DOMAIN index :
                          IF index[id].hasPau
                          THEN TruthAnswer(table, id) =
                                   [found |-> TRUE, id |-> index[id].predefinedAnswerUnit]
                          ELSE IF index[id].hasMapped
                          THEN TruthAnswer(table, id) =
                                   TruthAnswer(table, index[id].mappedQuestion)
                          ELSE ~TruthAnswer(table, id).found

\* A chain A -> B -> C -> X: A gets the direct answer of C.
C8_Witness ==
    /\ extracted.done
    /\ extracted.result.raised = ""
    /\ \E a, b, c \in 1..NumQuestions :
          /\ a # b /\ b # c /\ a # c
          /\ \A id \in {a, b, c} : questions[id].state # Rejected
          /\ ~questions[a].hasPau /\ questions[a].hasMapped /\ questions[a].mappedQuestion = b
          /\ ~questions[b].hasPau /\ questions[b].hasMapped /\ questions[b].mappedQuestion = c
          /\ questions[c].hasPau
          /\ TruthAnswer(extracted.result.truth, a) =
                 [found |-> TRUE, id |-> questions[c].predefinedAnswerUnit]

\* C9: off-topic classification.  A non-rejected Question with no direct or
\* indirect answer has no truth row; it is counted as unmapped exactly when its
\* offTopic flag is false, an off-topic one being counted apart.
C9_OffTopicClassification ==
    (extracted.done /\ extracted.result.raised = "") =>
        LET index == QuestionIndex(NotRejected(questions))
            unanswered == { id \in DOMAIN index :
                               ~TruthAnswer(extracted.result.truth, id).found }
        IN  extracted.result.unmapped =
                Cardinality({ id \in unanswered : ~index[id].offTopic })

\* ==================================================================
\* Properties of XmgrProject.get_questions (SpecPages)

\* C15: pagination result.  get_questions returns only when it has accumulated at
\* least as many items as the first response reported in total; the offset of
\* every request is the number of items accumulated when it was issued; and from
\* a server that honours offsets the returned list is the list of the project's
\* questions, each once and in the server's order, whatever the page sizes.
C15_Pagination ==
    /\ paging.pc = "returned" =>
          /\ paging.total.known
          /\ Len(paging.questions) >= paging.total.value
    /\ paging.total.known => paging.offset = paging.accumulated
    /\ (paging.pc = "returned" /\ paging.honours) => paging.questions = questions

\* get_questions has returned a list it gathered over more than one request.
C15_Witness ==
    /\ paging.pc = "returned"
    /\ paging.honours
    /\ paging.offset > 0
    /\ Len(paging.questions) = MaxTotal

\* C24: pagination terminates.  Every call of get_questions returns, also when
\* the server answers a request with a page of zero items while fewer than total
\* items have been accumulated.
C24_PaginationTerminates == <>(paging.pc = "returned")

\* ==================================================================
\* Further properties of the Truth Extractor (SpecTruth)

\* Following the mappings from a question stops within fuel questions: at a
\* question with a direct answer or with no mapping, or at an id that is not in
\* the index.
RECURSIVE ChainStops(_, _, _)
ChainStops(index, id, fuel) ==
    IF id \notin DOMAIN index THEN TRUE
    ELSE IF fuel = 0 THEN FALSE
    ELSE IF index[id].hasPau \/ ~index[id].hasMapped THEN TRUE
    ELSE ChainStops(index, index[id].mappedQuestion, fuel - 1)

\* The questions that are on, or lead into, a cycle of mappedQuestion references
\* none of whose members has a direct answer.
OnCycle(index) == { id \in DOMAIN index : ~ChainStops(index, id, Cardinality(DOMAIN index)) }

\* The mappedQuestion of every question of the index is in the index.
ClosedMapping(index) ==
    \A id \in DOMAIN index :
        (~index[id].hasPau /\ index[id].hasMapped) => index[id].mappedQuestion \in DOMAIN index

\* C22: every non-rejected Question is classified.  For a list of Questions
\* whose mappings have no cycle (cycles are the subject of C23), also one with a
\* mappedQuestion that is rejected or not in the list, truth extraction returns
\* a truth table in which every non-rejected Question has at most one row, and
\* the Questions without a row are the ones counted as unmapped.
C22_EveryQuestionClassified ==
    LET index == QuestionIndex(NotRejected(questions))
    IN  (extracted.done /\ OnCycle(index) = {}) =>
            /\ extracted.result.raised = ""
            /\ LET table == extracted.result.truth
               IN  /\ \A i, j \in 1..Len(table) :
                          table[i].QuestionId = table[j].QuestionId => i = j
                   /\ extracted.result.unmapped =
                          Cardinality({ id \in DOMAIN index : ~TruthAnswer(table, id).found })

\* C23: no cycle guard.  When the mapping graph of the non-rejected Questions has
\* a cycle none of whose members has a direct answer, resolution never ends, so
\* truth extraction never returns; for an acyclic graph it ends.
C23_NoCycleGuard ==
    LET index == QuestionIndex(NotRejected(questions))
    IN  extracted.done => OnCycle(index) = {}

\* C23 as the code has it: truth extraction on a graph with such a cycle ends
\* with an exception and no truth table, which is RuntimeError (the recursion
\* limit) when every mappedQuestion is in the index; it raises RuntimeError for
\* no graph without such a cycle.
C23_CycleRaisesRuntimeError ==
    LET index == QuestionIndex(NotRejected(questions))
    IN  extracted.done =>
            /\ OnCycle(index) # {} => extracted.result.raised \in {"RuntimeError", "KeyError"}
            /\ (OnCycle(index) # {} /\ ClosedMapping(index)) =>
                  extracted.result.raised = "RuntimeError"
            /\ OnCycle(index) = {} => extracted.result.raised # "RuntimeError"

\* Extraction has ended on a list in which a question leads into a cycle of two.
C23_Witness ==
    /\ extracted.done
    /\ extracted.result.raised = "RuntimeError"
    /\ \E a, b, c \in 1..NumQuestions :
          /\ a # b /\ b # c /\ a # c
          /\ \A id \in {a, b, c} :
                questions[id].state # Rejected /\ ~questions[id].hasPau /\ questions[id].hasMapped
          /\ questions[a].mappedQuestion = b
          /\ questions[b].mappedQuestion = c
          /\ questions[c].mappedQuestion = b


\* ==================================================================
\* Properties of two concurrent invocations (SpecConcurrent)

\* The number of rows of a file that have the key.
RowsOf(file, key) == Cardinality({ i \in 1..Len(file.rows) : file.rows[i].key = key })

\* 1 when the invocation with this history has requested the identifier.
Requested(h, id) == IF id \in h.requested THEN 1 ELSE 0

\* C29: concurrent runs are unsafe.  Each of two invocations on one output
\* directory requests every key of its work set that was not in the checkpoint
\* when it opened the checkpoint itself, whatever the other invocation requests
\* or has in its buffer, and every request with a result appends a row: when both
\* have closed a checkpoint, the file has one row of a key for each invocation
\* that requested it, so two rows of a key that both requested.
C29_ConcurrentRunsUnsafe ==
    /\ \A h \in {history, suspended.history} :
           h.phase \in {1, 2} => h.requested \subseteq h.work \ h.recovered
    /\ (pc = "phase1" /\ history.phase = 1) =>
           history.requested \cup document_ids = history.work \ history.recovered
    /\ (pc = "read_pau_ids" /\ suspended.pc = "read_pau_ids") =>
           \A document_id \in DocIds :
               RowsOf(pau_ids_csv, document_id) =
                   Requested(history, document_id) + Requested(suspended.history, document_id)
    /\ (pc = "log_ratio" /\ suspended.pc = "log_ratio") =>
           \A pau_id \in hits :
               RowsOf(corpus_csv, OwnId(pau_id)) =
                   Requested(history, pau_id) + Requested(suspended.history, pau_id)

\* Both invocations have been through both phases, both requested the same
\* document and the same answer unit, and both checkpoints have a key twice.
C29_Witness ==
    /\ pc = "log_ratio"
    /\ suspended.pc = "log_ratio"
    /\ history.requested \cap suspended.history.requested # {}
    /\ ~NoDuplicateKeys(pau_ids_csv)
    /\ ~NoDuplicateKeys(corpus_csv)


\* ==================================================================
\* Properties of the fetch over repeated references (SpecRepeats)

\* The number of items of a reference list that name the identifier.
References(items, id) == Cardinality({ i \in 1..Len(items) : items[i] = id })

\* C31: deduplicated fetch.  In phase 2 of a run every write is that of a
\* get_pau request with a hit, no key is written twice, and the writes are as
\* many as the distinct identifiers requested that have a hit; when the loop
\* has ended the requested identifiers are the distinct identifiers of all
\* reference lists and n is their number, whatever the lists repeat or share.
C31_DeduplicatedFetch ==
    /\ history.phase = 2 =>
          /\ Len(history.written) = counts.m
          /\ \A i, j \in 1..Len(history.written) :
                 history.written[i] = history.written[j] => i = j
          /\ Len(history.written) = Cardinality(history.requested \cap hits)
          /\ history.requested \cup pau_ids = history.work
    /\ pc = "log_ratio" =>
          /\ history.requested = UNION { Range(refs[document_id]) : document_id \in DocIds }
          /\ counts.n = Cardinality(history.requested)

\* The phase 2 loop has ended and has requested an answer unit that every
\* document references and one document references twice.
C31_Witness ==
    /\ pc = "log_ratio"
    /\ \E pau_id \in history.requested \cap hits :
          /\ \A document_id \in DocIds : References(refs[document_id], pau_id) >= 1
          /\ \E document_id \in DocIds : References(refs[document_id], pau_id) >= 2
          /\ RowsOf(corpus_csv, OwnId(pau_id)) = 1


\* ==================================================================
\* Properties of a repeated verify_answer_ids (SpecVerify)

\* C32: Verifier idempotence.  The second call of verify_answer_ids, on the
\* truth.csv, truth.non_corpus.csv and corpus.csv the first call left, returns
\* in its first step and no step of it changes a file: truth.csv keeps its rows
\* and truth.non_corpus.csv is neither rewritten nor emptied.
C32_VerifierIdempotence ==
    [][ /\ runs' = 2 => files' = files
        /\ (runs = 2 /\ pc = "verify_answer_ids") =>
              /\ pc' = "idle"
              /\ outcome' = "done"
              /\ truth_csv'.rows = history'.truth_before
      ]_vars

\* The second call has returned on a truth.csv the first call had filtered and
\* a truth.non_corpus.csv the first call had written.
C32_Witness ==
    /\ runs = 2
    /\ outcome = "done"
    /\ history.removals = 1
    /\ truth_csv.rows # <<>>
    /\ truth_non_corpus_csv.exists
    /\ truth_non_corpus_csv.rows # <<>>

====
